---- MODULE Spec2Model ----
(***************************************************************************)
(* Object dispatch of tg/controllers/dispatcher.py: DispatchState, the     *)
(* ObjectDispatcher tree walk with its default/lookup fallback search, and *)
(* the argument reconciliation helpers of Dispatcher.                      *)
(***************************************************************************)
EXTENDS Integers, Sequences, FiniteSets, TLC

VARIABLES
    world,   \* the controller graph's capabilities and the request path (fixed per request)
    state,   \* the DispatchState object
    frame,   \* the running call: position (pc), its local remainder and loop counters
    heap,    \* the list objects state.url_path may refer to
    trace,   \* the calls made so far (_check_security, add_controller, lookup, add_method)
    call,    \* a call of add_routing_args or of an argspec helper: its arguments and result
    cached_argspecs   \* Dispatcher._cached_argspecs, the class-level argspec cache

vars == <<world, state, frame, heap, trace, call, cached_argspecs>>

\* ------------------------------------------------------------------ bounds

\* Longest path dispatched against a graph in which no controller has lookup.
MaxPathLen == 4
\* Longest path dispatched against a graph in which some controller has lookup.
MaxLookupPathLen == 2
\* lookup calls followed in one dispatch (a lookup may send the search round for ever).
MaxLookups == 1
\* Most fixed_args handed to add_routing_args.
MaxFixedArgs == 2
\* Longest remainder handed to add_routing_args and to the argspec helpers.
MaxRemainder == 3
\* Most parameters a handler declares after self.
MaxParams == 3

\* ------------------------------------------------------- controller graph
\* The graph is supplied by the application; this one is root -a-> A -b-> B -c-> C,
\* with B.a a second way into C (the segment "a" then names two mount points on
\* one path), A.c an exposed method, and "x" a segment nothing is mounted on.

Controllers == {"root", "A", "B", "C"}
Segments == {"a", "b", "c", "x"}
None == <<"None">>

\* Controllers that are dispatchers themselves (have _dispatch); C is a plain object.
HasDispatch == {"root", "A", "B"}
\* Controllers that define _check_security.
HasCheckSecurity == {"root", "A", "C"}
\* Controllers with an index attribute.
HasIndex == {"A"}

\* getattr(controller, name) for a path segment: <<"method", controller, name>>,
\* <<"controller", c>>, or None when hasattr is false.
Attribute(controller, name) ==
    CASE controller = "root" /\ name = "a" -> <<"controller", "A">>
      [] controller = "A" /\ name = "b" -> <<"controller", "B">>
      [] controller = "A" /\ name = "c" -> <<"method", "A", "c">>
      [] controller = "B" /\ name = "c" -> <<"controller", "C">>
      [] controller = "B" /\ name = "a" -> <<"controller", "C">>
      [] OTHER -> None

\* What every lookup of the graph returns: (controller, remainder), the remainder
\* either fixed or the arguments after the first.
LookupRets ==
    { [controller |-> "B", rest |-> FALSE, remainder |-> <<"c">>],
      [controller |-> "C", rest |-> TRUE, remainder |-> <<>>] }

NoLookupRet == [controller |-> "C", rest |-> TRUE, remainder |-> <<>>]

PathsUpTo(len) == UNION { [1..n -> Segments] : n \in 0..len }

KindMaps == [Controllers -> {"none", "default", "lookup"}]
    \cup { [c \in Controllers |-> IF c = b THEN "both" ELSE "none"] : b \in Controllers }

Worlds ==
    { [kind |-> k, lookup_ret |-> r, path |-> p] :
        k \in { m \in KindMaps : \E c \in Controllers : m[c] \in {"lookup", "both"} },
        r \in LookupRets, p \in PathsUpTo(MaxLookupPathLen) }
    \cup
    { [kind |-> k, lookup_ret |-> NoLookupRet, path |-> p] :
        k \in { m \in KindMaps : \A c \in Controllers : m[c] \notin {"lookup", "both"} },
        p \in PathsUpTo(MaxPathLen) }

\* --------------------------------------------------------------- helpers

Last(s) == s[Len(s)]
Front(s) == SubSeq(s, 1, Len(s) - 1)
Max(a, b) == IF a > b THEN a ELSE b
Min(a, b) == IF a < b THEN a ELSE b

\* Python's s[:-k] for k > 0.
SliceDropLast(s, k) == SubSeq(s, 1, Max(0, Len(s) - k))

\* tg.util.odict, the ordered mapping behind controller_path: a sequence of
\* [location, controller] entries with distinct locations.
odict_setitem(od, location, controller) ==
    Append(SelectSeq(od, LAMBDA e : e.location # location),
           [location |-> location, controller |-> controller])

odict_getitem_last(od) == Last(od).controller

odict_pop(od) == Front(od)

\* ------------------------------------------------------------ DispatchState

NewDispatchState ==
    [url_path |-> "caller", controller_path |-> <<>>, routing_args |-> <<>>,
     method |-> None, remainder |-> None, dispatcher |-> None]

add_controller(st, location, controller) ==
    [st EXCEPT !.controller_path = odict_setitem(@, location, controller)]

add_method(st, method, remainder) ==
    [st EXCEPT !.method = method, !.remainder = remainder]

\* DispatchState.controller
controller_of(st) == odict_getitem_last(st.controller_path)

\* The contents of the list state.url_path refers to.
UrlPath(c) == c.heap[c.state.url_path]

\* ---------------------------------------------------------- ObjectDispatcher

_is_exposed(controller, name) ==
    \/ /\ name \in Segments
       /\ Attribute(controller, name) # None
       /\ Attribute(controller, name)[1] = "method"
    \/ name = "default" /\ world.kind[controller] \in {"default", "both"}
    \/ name = "lookup" /\ world.kind[controller] \in {"lookup", "both"}
    \/ name = "index" /\ controller \in HasIndex

hasattr_index(controller) == controller \in HasIndex

\* controller.lookup(*remainder)
lookup(controller, remainder) ==
    [controller |-> world.lookup_ret.controller,
     remainder |-> IF world.lookup_ret.rest
                   THEN (IF remainder = <<>> THEN <<>> ELSE Tail(remainder))
                   ELSE world.lookup_ret.remainder]

Lookups(tr) == Len(SelectSeq(tr, LAMBDA e : e[1] = "lookup"))

\* _dispatch without its security gate.
_dispatch_check_security_skipped(c, deny) == [c EXCEPT !.frame.pc = "route"]

\* _dispatch calling the hook and going on whatever it signals.
_dispatch_check_security_ignored(c, deny) ==
    LET cur == controller_of(c.state) IN
    IF cur \in HasCheckSecurity /\ deny
    THEN [c EXCEPT !.trace = @ \o <<<<"_check_security", cur>>,
                                    <<"SecurityDenied", cur>>>>,
                   !.frame.pc = "route"]
    ELSE [c EXCEPT !.frame.pc = "route"]

\* _dispatch, lines 362-365: the security gate of the controller on top of the stack.
_dispatch_check_security(c, deny) ==
    LET cur == controller_of(c.state) IN
    IF cur \in HasCheckSecurity
    THEN IF deny
         THEN [c EXCEPT !.trace = @ \o <<<<"_check_security", cur>>,
                                         <<"SecurityDenied", cur>>>>,
                        !.frame.pc = "denied"]
         ELSE [c EXCEPT !.trace = Append(@, <<"_check_security", cur>>),
                        !.frame.pc = "route"]
    ELSE [c EXCEPT !.frame.pc = "route"]

\* _dispatch_first_found_default_or_lookup, lines 337-339, up to the loop head.
_fallback_enter(c) ==
    LET remainder == c.frame.remainder IN
    [c EXCEPT !.state.url_path = IF Len(remainder) > 0 THEN "slice" ELSE @,
              !.heap.slice = IF Len(remainder) > 0
                             THEN SliceDropLast(UrlPath(c), Len(remainder))
                             ELSE @,
              !.frame.pc = "fallback",
              !.frame.orig_url_path = c.state.url_path,
              !.frame.i = 0,
              !.frame.n = Len(c.state.controller_path),
              !.frame.walked = c.state.controller_path,
              !.trace = Append(@, <<"fallback", controller_of(c.state)>>)]

\* index resolved with the whole url path as its remainder.
_dispatch_index_url_path(c) ==
    LET cur == controller_of(c.state) IN
    [c EXCEPT !.state = add_method(@, <<cur, "index">>, UrlPath(c)),
              !.frame.pc = "done",
              !.trace = Append(@, <<"add_method", cur>>)]

\* _dispatch, lines 367-370
_dispatch_index(c) ==
    LET cur == controller_of(c.state) IN
    [c EXCEPT !.state = add_method(@, <<cur, "index">>, c.frame.remainder),
              !.frame.pc = "done",
              !.trace = Append(@, <<"add_method", cur>>)]

\* The exposed method resolved without consuming its own segment.
_dispatch_exposed_unconsumed(c) ==
    LET cur == controller_of(c.state)
        current_path == c.frame.remainder[1] IN
    [c EXCEPT !.state = add_method(@, <<cur, current_path>>, c.frame.remainder),
              !.frame.pc = "done",
              !.trace = Append(@, <<"add_method", cur>>)]

\* _dispatch, lines 375-380
_dispatch_exposed(c) ==
    LET cur == controller_of(c.state)
        current_path == c.frame.remainder[1] IN
    [c EXCEPT !.state = add_method(@, <<cur, current_path>>, Tail(c.frame.remainder)),
              !.frame.pc = "done",
              !.trace = Append(@, <<"add_method", cur>>)]

\* _dispatch, lines 383-385: the call of _dispatch_controller
_dispatch_subcontroller(c) ==
    LET cur == controller_of(c.state)
        current_path == c.frame.remainder[1] IN
    [c EXCEPT !.frame.pc = "enter",
              !.frame.current_path = current_path,
              !.frame.controller = Attribute(cur, current_path)[2],
              !.frame.remainder = Tail(c.frame.remainder)]

\* _dispatch_controller, lines 312-329
_dispatch_controller(c, deny) ==
    LET controller == c.frame.controller
        entered == [c EXCEPT
            !.state = add_controller(@, c.frame.current_path, controller),
            !.frame.pc = "dispatch",
            !.trace = Append(@, <<"add_controller", controller>>)] IN
    IF controller \in HasDispatch
    THEN IF controller \in HasCheckSecurity
         THEN IF deny
              THEN [c EXCEPT !.trace = @ \o <<<<"_check_security", controller>>,
                                              <<"SecurityDenied", controller>>>>,
                             !.frame.pc = "denied"]
              ELSE [entered EXCEPT
                       !.trace = c.trace \o <<<<"_check_security", controller>>,
                                              <<"add_controller", controller>>>>,
                       !.state.dispatcher = controller,
                       !.frame.self = controller]
         ELSE [entered EXCEPT !.state.dispatcher = controller,
                              !.frame.self = controller]
    ELSE entered

\* The search failing with a handler left on the state.
_fallback_exhausted_resolved(c) ==
    [c EXCEPT !.state = add_method(@, <<"root", "default">>, c.frame.remainder),
              !.frame.pc = "notfound"]

\* the loop of _dispatch_first_found_default_or_lookup: xrange(len(controller_path))
\* is exhausted, line 355
_fallback_exhausted(c) == [c EXCEPT !.frame.pc = "notfound"]

\* lines 342-345
_fallback_default(c) ==
    LET controller == controller_of(c.state) IN
    [c EXCEPT !.state = [add_method(@, <<controller, "default">>, c.frame.remainder)
                            EXCEPT !.dispatcher = c.frame.self],
              !.frame.pc = "done",
              !.trace = Append(@, <<"add_method", controller>>)]

\* lines 346-349
_fallback_lookup(c) ==
    LET controller == controller_of(c.state)
        ret == lookup(controller, c.frame.remainder) IN
    [c EXCEPT !.state.url_path = c.frame.orig_url_path,
              !.frame.pc = "enter",
              !.frame.current_path = "lookup",
              !.frame.controller = ret.controller,
              !.frame.remainder = ret.remainder,
              !.trace = Append(@, <<"lookup", controller, ret.controller, ret.remainder>>)]

\* The walk staying on the controller it is on.
_fallback_pop_stuck(c) == c

\* lines 350-354
_fallback_pop(c) ==
    LET url == UrlPath(c) IN
    [c EXCEPT !.state.controller_path = odict_pop(@),
              !.frame.remainder = IF Len(url) > 0 THEN <<Last(url)>> \o @ ELSE @,
              !.heap[c.state.url_path] = IF Len(url) > 0 THEN Front(url) ELSE @,
              !.frame.i = @ + 1]

\* --------------------------------------------------------------- the request

\* No helper call in progress.
NoCall == [op |-> "none"]
\* The class has no _cached_argspecs attribute yet.
NoCache == [present |-> FALSE, entries |-> <<>>]

\* Dispatcher._get_dispatchable, lines 175-178: a dispatch started at `controller`
\* with the path `url_path`.
StartDispatch(controller, url_path) ==
    [state |-> [add_controller(NewDispatchState, "/", controller)
                   EXCEPT !.dispatcher = controller],
     frame |-> [pc |-> "dispatch", remainder |-> url_path, self |-> controller,
                current_path |-> "/", controller |-> controller,
                orig_url_path |-> "caller", i |-> 0, n |-> 0, walked |-> <<>>],
     heap |-> [caller |-> url_path, slice |-> <<>>],
     trace |-> <<<<"add_controller", controller>>>>]

Cfg == [state |-> state, frame |-> frame, heap |-> heap, trace |-> trace]

Becomes(c) ==
    /\ state' = c.state
    /\ frame' = c.frame
    /\ heap' = c.heap
    /\ trace' = c.trace
    /\ UNCHANGED <<world, call, cached_argspecs>>

Init ==
    /\ world \in Worlds
    /\ state = StartDispatch("root", world.path).state
    /\ frame = StartDispatch("root", world.path).frame
    /\ heap = StartDispatch("root", world.path).heap
    /\ trace = StartDispatch("root", world.path).trace
    /\ call = NoCall
    /\ cached_argspecs = NoCache

\* Which rule of _dispatch applies once the security gate is passed.
IndexRule(c) == c.frame.remainder = <<>> /\ hasattr_index(controller_of(c.state))
NoIndexRule(c) == c.frame.remainder = <<>> /\ ~hasattr_index(controller_of(c.state))
ExposedRule(c) ==
    /\ c.frame.remainder # <<>>
    /\ _is_exposed(controller_of(c.state), c.frame.remainder[1])
SubControllerRule(c) ==
    /\ c.frame.remainder # <<>>
    /\ ~_is_exposed(controller_of(c.state), c.frame.remainder[1])
    /\ Attribute(controller_of(c.state), c.frame.remainder[1]) # None
NoMatchRule(c) ==
    /\ c.frame.remainder # <<>>
    /\ ~_is_exposed(controller_of(c.state), c.frame.remainder[1])
    /\ Attribute(controller_of(c.state), c.frame.remainder[1]) = None

\* The fallback loop running one iteration short.
WalkLeft_short(c) == c.frame.n - c.frame.i - 1

\* The iterations of the fallback loop still to run.
WalkLeft(c) == c.frame.n - c.frame.i

DefaultRule(c) == WalkLeft(c) > 0 /\ _is_exposed(controller_of(c.state), "default")
LookupRule(c) ==
    /\ WalkLeft(c) > 0
    /\ ~_is_exposed(controller_of(c.state), "default")
    /\ _is_exposed(controller_of(c.state), "lookup")
PopRule(c) ==
    /\ WalkLeft(c) > 0
    /\ ~_is_exposed(controller_of(c.state), "default")
    /\ ~_is_exposed(controller_of(c.state), "lookup")

CheckSecurity ==
    /\ frame.pc = "dispatch"
    /\ \E deny \in BOOLEAN :
          /\ deny => controller_of(state) \in HasCheckSecurity
          /\ Becomes(_dispatch_check_security(Cfg, deny))

DispatchIndex == frame.pc = "route" /\ IndexRule(Cfg) /\ Becomes(_dispatch_index(Cfg))

DispatchNoIndex == frame.pc = "route" /\ NoIndexRule(Cfg) /\ Becomes(_fallback_enter(Cfg))

DispatchExposed == frame.pc = "route" /\ ExposedRule(Cfg) /\ Becomes(_dispatch_exposed(Cfg))

DispatchSubController ==
    frame.pc = "route" /\ SubControllerRule(Cfg) /\ Becomes(_dispatch_subcontroller(Cfg))

DispatchNoMatch == frame.pc = "route" /\ NoMatchRule(Cfg) /\ Becomes(_fallback_enter(Cfg))

DispatchController ==
    /\ frame.pc = "enter"
    /\ \E deny \in BOOLEAN :
          /\ deny => (frame.controller \in HasDispatch \cap HasCheckSecurity)
          /\ Becomes(_dispatch_controller(Cfg, deny))

FallbackExhausted ==
    frame.pc = "fallback" /\ WalkLeft(Cfg) = 0 /\ Becomes(_fallback_exhausted(Cfg))

FallbackDefault == frame.pc = "fallback" /\ DefaultRule(Cfg) /\ Becomes(_fallback_default(Cfg))

FallbackLookup ==
    /\ frame.pc = "fallback"
    /\ LookupRule(Cfg)
    /\ Lookups(trace) < MaxLookups
    /\ Becomes(_fallback_lookup(Cfg))

FallbackPop == frame.pc = "fallback" /\ PopRule(Cfg) /\ Becomes(_fallback_pop(Cfg))

Next ==
    \/ CheckSecurity
    \/ DispatchIndex
    \/ DispatchNoIndex
    \/ DispatchExposed
    \/ DispatchSubController
    \/ DispatchNoMatch
    \/ DispatchController
    \/ FallbackExhausted
    \/ FallbackDefault
    \/ FallbackLookup
    \/ FallbackPop

Spec == Init /\ [][Next]_vars

\* The dispatch against a graph in which no controller exposes lookup; every
\* step of the running dispatch is taken in the end.
InitNoLookup ==
    /\ Init
    /\ \A c \in Controllers : world.kind[c] \notin {"lookup", "both"}

NextNoLookup ==
    \/ CheckSecurity
    \/ DispatchIndex
    \/ DispatchNoIndex
    \/ DispatchExposed
    \/ DispatchSubController
    \/ DispatchNoMatch
    \/ DispatchController
    \/ FallbackExhausted
    \/ FallbackDefault
    \/ FallbackPop

SpecNoLookup == InitNoLookup /\ [][NextNoLookup]_vars /\ WF_vars(NextNoLookup)

\* ------------------------------------------------------------- dictionaries

DictSet(d, k, v) == [x \in (DOMAIN d) \cup {k} |-> IF x = k THEN v ELSE d[x]]
DictDel(d, k) == [x \in (DOMAIN d) \ {k} |-> d[x]]

\* Python's s[i:] for i >= 0.
SliceFrom(s, i) == SubSeq(s, i + 1, Len(s))

\* ------------------------------------------- DispatchState.add_routing_args

\* The for loop of lines 56-60; `taken` items of enumerate(fixed_args) are behind,
\* `i` is the loop variable. Yields the routing_args and the value i is left with.
RECURSIVE routing_args_loop(_, _, _, _, _)
routing_args_loop(routing_args, i, taken, remainder, fixed_args) ==
    IF taken = Len(fixed_args)
    THEN [routing_args |-> routing_args, i |-> i]
    ELSE IF taken >= Len(remainder)
         THEN [routing_args |-> routing_args, i |-> taken]
         ELSE routing_args_loop(
                  DictSet(routing_args, fixed_args[taken + 1], remainder[taken + 1]),
                  taken, taken + 1, remainder, fixed_args)

\* lines 54-63
add_routing_args(st, current_path, remainder, fixed_args, var_args) ==
    LET after == routing_args_loop(st.routing_args, 0, 0, remainder, fixed_args)
        rest == SliceFrom(remainder, after.i) IN
    [st EXCEPT !.routing_args =
        IF var_args /\ rest # <<>>
        THEN DictSet(after.routing_args, current_path, rest)
        ELSE after.routing_args]

ArgNames == <<"p", "q", "r", "s", "t">>
Values == {"u", "v"}
SeqsUpTo(S, len) == UNION { [1..n -> S] : n \in 0..len }

\* The state outside a dispatch: a fresh DispatchState on the root.
Idle ==
    /\ world = [kind |-> [c \in Controllers |-> "none"],
                lookup_ret |-> NoLookupRet, path |-> <<>>]
    /\ state = StartDispatch("root", <<>>).state
    /\ frame = StartDispatch("root", <<>>).frame
    /\ heap = StartDispatch("root", <<>>).heap
    /\ trace = StartDispatch("root", <<>>).trace

\* dict.update(other): the keys of other take other's values.
dict_update(d, other) ==
    [x \in (DOMAIN d) \cup (DOMAIN other) |-> IF x \in DOMAIN other THEN other[x] ELSE d[x]]

\* The names request parameters may carry: two that fixed args also have, and
\* one the dispatch never binds.
ParamNames == {"p", "q", "other"}

InitRoutingArgs ==
    /\ Idle
    /\ cached_argspecs = NoCache
    /\ \E n \in 0..MaxFixedArgs, remainder \in SeqsUpTo(Values, MaxRemainder),
          var_args \in BOOLEAN, names \in SUBSET ParamNames :
          call = [op |-> "add_routing_args", current_path |-> "path",
                  remainder |-> remainder, fixed_args |-> SubSeq(ArgNames, 1, n),
                  var_args |-> var_args, returned |-> FALSE,
                  params |-> [x \in names |-> "named"],
                  merged |-> FALSE, bound |-> <<>>]

AddRoutingArgs ==
    /\ call.op = "add_routing_args"
    /\ ~call.returned
    /\ state' = add_routing_args(state, call.current_path, call.remainder,
                                 call.fixed_args, call.var_args)
    /\ call' = [call EXCEPT !.returned = TRUE]
    /\ UNCHANGED <<world, frame, heap, trace, cached_argspecs>>

\* _get_dispatchable, line 183, once the dispatch has bound its routing args;
\* call.bound keeps what the dispatch had bound.
MergeParams ==
    /\ call.op = "add_routing_args"
    /\ call.returned
    /\ ~call.merged
    /\ state' = [state EXCEPT !.routing_args = dict_update(@, call.params)]
    /\ call' = [call EXCEPT !.merged = TRUE, !.bound = state.routing_args]
    /\ UNCHANGED <<world, frame, heap, trace, cached_argspecs>>

NextRoutingArgs == AddRoutingArgs \/ MergeParams

SpecRoutingArgs == InitRoutingArgs /\ [][NextRoutingArgs]_vars

\* ------------------------------------------------ Dispatcher: argspec helpers

\* A handler with n parameters after self, the last k of them with defaults;
\* getargspec gives defaults = None when there are none.
Handler(n, k) ==
    [im_func |-> "f",
     args |-> <<"self">> \o SubSeq(ArgNames, 1, n),
     defaults |-> IF k = 0 THEN None ELSE [i \in 1..k |-> "dflt"]]

\* inspect.getargspec(func): argspec[0] and argspec[3]
getargspec(func) == [args |-> func.args, defaults |-> func.defaults]

\* _get_argspec, lines 82-92: the argspec and the cache it leaves behind.
_get_argspec(cache, func) ==
    LET entries == IF cache.present THEN cache.entries ELSE <<>> IN
    IF func.im_func \in DOMAIN entries
    THEN [argspec |-> entries[func.im_func],
          cache |-> [present |-> TRUE, entries |-> entries]]
    ELSE [argspec |-> getargspec(func),
          cache |-> [present |-> TRUE,
                     entries |-> DictSet(entries, func.im_func, getargspec(func))]]

\* Python's s[:j] and s[j:] for j >= 0.
SliceTo(s, j) == SubSeq(s, 1, Min(j, Len(s)))

\* The two mapping objects of a helper call: the caller's, and the copy the
\* helper makes of it. A helper goes on with the object `params` names.
ParamsObjects(params) == [caller |-> params, copy |-> <<>>]

\* The helper going on with the caller's own mapping object.
params_copy_aliased(objects) == [objects |-> objects, params |-> "caller"]

\* params = params.copy(), lines 95 and 131
params_copy(objects) ==
    [objects |-> [objects EXCEPT !.copy = objects.caller], params |-> "copy"]

\* Only the first declared parameter bound.
bind_loop_first_only(params, remainder, i, argvars) ==
    IF argvars = <<>> \/ remainder = <<>>
    THEN params
    ELSE DictSet(params, argvars[1], remainder[1])

\* lines 99-102: params[var] = remainder[i] until the remainder runs out
RECURSIVE bind_loop(_, _, _, _)
bind_loop(params, remainder, i, argvars) ==
    IF i = Len(argvars) \/ i >= Len(remainder)
    THEN params
    ELSE bind_loop(DictSet(params, argvars[i + 1], remainder[i + 1]),
                   remainder, i + 1, argvars)

\* _get_params_with_argspec, lines 94-103: the mapping returned, and what the
\* caller's mapping object holds afterwards. enumerate(remainder) is an object,
\* true whatever the remainder.
_get_params_with_argspec(argspec, params, remainder) ==
    LET copied == params_copy(ParamsObjects(params))
        argvars == Tail(argspec.args)
        bound == IF argvars # <<>>
                 THEN bind_loop(copied.objects[copied.params], remainder, 0, argvars)
                 ELSE copied.objects[copied.params]
        objects == [copied.objects EXCEPT ![copied.params] = bound] IN
    [raised |-> "no", params |-> objects[copied.params], remainder |-> remainder,
     caller_params |-> objects.caller]

\* lines 135-137: remainder[i] = params[var]; del params[var], for each required var
RECURSIVE required_loop(_, _, _, _)
required_loop(params, remainder, i, required_vars) ==
    IF i = Len(required_vars)
    THEN [raised |-> "no", params |-> params, remainder |-> remainder]
    ELSE LET var == required_vars[i + 1] IN
         IF var \notin DOMAIN params
         THEN [raised |-> "KeyError", params |-> params, remainder |-> remainder]
         ELSE IF i >= Len(remainder)
              THEN [raised |-> "IndexError", params |-> params, remainder |-> remainder]
              ELSE required_loop(DictDel(params, var),
                                 [remainder EXCEPT ![i + 1] = params[var]],
                                 i + 1, required_vars)

\* The optional vars left in the copy of params.
optional_loop_kept(params, i, optional_vars) == params

\* lines 140-142: the optional vars that are in the copy of params leave it
RECURSIVE optional_loop(_, _, _)
optional_loop(params, i, optional_vars) ==
    IF i = Len(optional_vars)
    THEN params
    ELSE LET var == optional_vars[i + 1] IN
         optional_loop(IF var \in DOMAIN params THEN DictDel(params, var) ELSE params,
                       i + 1, optional_vars)

\* lines 124-128
required_vars_of(argvars, argvals) ==
    IF argvals # <<>> THEN SliceTo(argvars, Len(argvals) - 1) ELSE argvars

optional_vars_of(argvars, argvals) ==
    IF argvals # <<>> THEN SliceFrom(argvars, Len(argvals) - 1) ELSE <<>>

\* _remove_argspec_params_from_params, lines 105-144: what is returned or raised,
\* the contents the caller's remainder list is left with, and what the caller's
\* mapping object holds afterwards.
_remove_argspec_params_from_params(argspec, params, remainder) ==
    LET argvars == Tail(argspec.args)
        argvals == IF argspec.defaults = None THEN <<>> ELSE argspec.defaults IN
    IF argvars = <<>> \/ remainder = <<>>
    THEN [raised |-> "no", params |-> params, remainder |-> remainder,
          caller_params |-> params]
    ELSE LET copied == params_copy(ParamsObjects(params))
             moved == required_loop(copied.objects[copied.params], remainder, 0,
                                    required_vars_of(argvars, argvals))
             left == IF moved.raised # "no"
                     THEN moved.params
                     ELSE optional_loop(moved.params, 0,
                                        optional_vars_of(argvars, argvals))
             objects == [copied.objects EXCEPT ![copied.params] = left] IN
         [raised |-> moved.raised, params |-> objects[copied.params],
          remainder |-> moved.remainder, caller_params |-> objects.caller]

\* The helpers of Dispatcher that reconcile params with a handler's argspec.
ArgspecOps == {"_remove_argspec_params_from_params", "_get_params_with_argspec"}

InitArgspec ==
    /\ Idle
    /\ \E op \in ArgspecOps :
       \E n \in 0..MaxParams :
       \E k \in 0..n :
       \E names \in SUBSET ({ArgNames[i] : i \in 1..n} \cup {"other"}) :
       \E remainder \in SeqsUpTo(Values, MaxRemainder) :
            /\ call = [op |-> op,
                       func |-> Handler(n, k),
                       params |-> [x \in names |-> "named"],
                       remainder |-> remainder,
                       returned |-> FALSE, raised |-> "no",
                       ret_params |-> <<>>, ret_remainder |-> <<>>,
                       caller_params |-> [x \in names |-> "named"]]
            /\ cached_argspecs \in
                  { NoCache,
                    [present |-> TRUE, entries |-> <<>>],
                    _get_argspec(NoCache, Handler(n, k)).cache }

RemoveArgspecParams ==
    /\ call.op = "_remove_argspec_params_from_params"
    /\ ~call.returned
    /\ call.raised = "no"
    /\ LET got == _get_argspec(cached_argspecs, call.func)
           out == _remove_argspec_params_from_params(got.argspec, call.params,
                                                     call.remainder) IN
       /\ cached_argspecs' = got.cache
       /\ call' = [call EXCEPT !.returned = (out.raised = "no"),
                               !.raised = out.raised,
                               !.ret_params = IF out.raised = "no" THEN out.params ELSE @,
                               !.ret_remainder = out.remainder,
                               !.caller_params = out.caller_params]
    /\ UNCHANGED <<world, state, frame, heap, trace>>

GetParamsWithArgspec ==
    /\ call.op = "_get_params_with_argspec"
    /\ ~call.returned
    /\ LET got == _get_argspec(cached_argspecs, call.func)
           out == _get_params_with_argspec(got.argspec, call.params, call.remainder) IN
       /\ cached_argspecs' = got.cache
       /\ call' = [call EXCEPT !.returned = TRUE,
                               !.ret_params = out.params,
                               !.ret_remainder = out.remainder,
                               !.caller_params = out.caller_params]
    /\ UNCHANGED <<world, state, frame, heap, trace>>

NextArgspec == RemoveArgspecParams \/ GetParamsWithArgspec

SpecArgspec == InitArgspec /\ [][NextArgspec]_vars

\* ------------------------------------- _get_argspec called by concurrent requests

\* Requests calling _get_argspec at the same time.
MaxThreads == 2

Threads == 1..MaxThreads

\* The dict objects: number 0 is the one the class has at the start (if it has
\* one), number t the one thread t creates at line 86.
FirstDict == 0
DictIds == {FirstDict} \cup Threads

\* Two handlers of different signatures.
RaceHandlers == {Handler(1, 0), [Handler(2, 1) EXCEPT !.im_func = "g"]}

\* Every handler's argspec kept under one and the same key.
argspec_key_shared(func) == "index"

\* The key of a handler in the cache, lines 89 and 91
argspec_key(func) == func.im_func

\* What self.__class__._cached_argspecs evaluates to.
ClassCache(r) ==
    [present |-> r.present,
     entries |-> IF r.present THEN r.dicts[r.class_ref] ELSE <<>>]

\* line 84: the class attribute is read, or AttributeError is raised
_get_argspec_read(r, t) ==
    IF r.present
    THEN [r EXCEPT !.threads[t].cached = r.class_ref, !.threads[t].pc = "lookup"]
    ELSE [r EXCEPT !.threads[t].pc = "create"]

\* line 86: a new dict becomes the class attribute and the local cached_argspecs
_get_argspec_create(r, t) ==
    [r EXCEPT !.present = TRUE, !.class_ref = t, !.dicts[t] = <<>>,
              !.created = @ \cup {t},
              !.threads[t].cached = t, !.threads[t].pc = "lookup"]

\* line 89: the entry is read from the local cached_argspecs, or KeyError is raised
_get_argspec_lookup(r, t) ==
    LET entries == r.dicts[r.threads[t].cached]
        key == argspec_key(r.threads[t].func) IN
    IF key \in DOMAIN entries
    THEN [r EXCEPT !.threads[t].argspec = entries[key], !.threads[t].pc = "done"]
    ELSE [r EXCEPT !.threads[t].pc = "store"]

\* line 91: getargspec(func) is stored in the local cached_argspecs and returned
_get_argspec_store(r, t) ==
    LET func == r.threads[t].func IN
    [r EXCEPT !.dicts[r.threads[t].cached] = DictSet(@, argspec_key(func), getargspec(func)),
              !.threads[t].argspec = getargspec(func),
              !.threads[t].pc = "done"]

InitRace ==
    /\ Idle
    /\ \E funcs \in [Threads -> RaceHandlers] :
       \E start \in { NoCache, [present |-> TRUE, entries |-> <<>>],
                       _get_argspec(NoCache, Handler(1, 0)).cache } :
          /\ cached_argspecs = start
          /\ call = [op |-> "_get_argspec",
                     present |-> start.present,
                     class_ref |-> FirstDict,
                     dicts |-> [d \in DictIds |-> IF d = FirstDict THEN start.entries ELSE <<>>],
                     created |-> {},
                     threads |-> [t \in Threads |->
                         [pc |-> "read", func |-> funcs[t],
                          cached |-> FirstDict, argspec |-> None]]]

RaceBecomes(r) ==
    /\ call' = r
    /\ cached_argspecs' = ClassCache(r)
    /\ UNCHANGED <<world, state, frame, heap, trace>>

GetArgspecRead ==
    /\ call.op = "_get_argspec"
    /\ \E t \in Threads :
          call.threads[t].pc = "read" /\ RaceBecomes(_get_argspec_read(call, t))

GetArgspecCreate ==
    /\ call.op = "_get_argspec"
    /\ \E t \in Threads :
          call.threads[t].pc = "create" /\ RaceBecomes(_get_argspec_create(call, t))

GetArgspecLookup ==
    /\ call.op = "_get_argspec"
    /\ \E t \in Threads :
          call.threads[t].pc = "lookup" /\ RaceBecomes(_get_argspec_lookup(call, t))

GetArgspecStore ==
    /\ call.op = "_get_argspec"
    /\ \E t \in Threads :
          call.threads[t].pc = "store" /\ RaceBecomes(_get_argspec_store(call, t))

NextRace == GetArgspecRead \/ GetArgspecCreate \/ GetArgspecLookup \/ GetArgspecStore

SpecRace == InitRace /\ [][NextRace]_vars

\* ------------------------------------------------- a whole dispatch, as a function

Terminal(c) == c.frame.pc \in {"done", "notfound", "denied"}

\* The search is about to follow one lookup more than MaxLookups.
LookupBound(c) ==
    c.frame.pc = "fallback" /\ LookupRule(c) /\ Lookups(c.trace) >= MaxLookups

\* No controller's _check_security raises.
NoDenier == "nobody"

\* One step of the dispatch when the _check_security of `denier` raises and every
\* other one passes.
StepDenying(c, denier) ==
    CASE c.frame.pc = "dispatch" ->
             _dispatch_check_security(c, controller_of(c.state) = denier)
      [] c.frame.pc = "route" /\ IndexRule(c) -> _dispatch_index(c)
      [] c.frame.pc = "route" /\ NoIndexRule(c) -> _fallback_enter(c)
      [] c.frame.pc = "route" /\ ExposedRule(c) -> _dispatch_exposed(c)
      [] c.frame.pc = "route" /\ SubControllerRule(c) -> _dispatch_subcontroller(c)
      [] c.frame.pc = "route" /\ NoMatchRule(c) -> _fallback_enter(c)
      [] c.frame.pc = "enter" -> _dispatch_controller(c, c.frame.controller = denier)
      [] c.frame.pc = "fallback" /\ WalkLeft(c) = 0 -> _fallback_exhausted(c)
      [] c.frame.pc = "fallback" /\ DefaultRule(c) -> _fallback_default(c)
      [] c.frame.pc = "fallback" /\ LookupRule(c) -> _fallback_lookup(c)
      [] c.frame.pc = "fallback" /\ PopRule(c) -> _fallback_pop(c)

\* One step of the dispatch when every _check_security passes.
Step(c) == StepDenying(c, NoDenier)

RECURSIVE RunDenying(_, _)
RunDenying(c, denier) ==
    IF Terminal(c) \/ LookupBound(c) THEN c ELSE RunDenying(StepDenying(c, denier), denier)

RECURSIVE Run(_)
Run(c) == IF Terminal(c) \/ LookupBound(c) THEN c ELSE Run(Step(c))

\* What a dispatch hands back: how it ended, the handler and its remainder.
Outcome(c) == <<c.frame.pc, c.state.method, c.state.remainder>>

\* ------------------------------------------------ Dispatcher: a whole request

\* Longest request path handled by _perform_call.
MaxRequestPathLen == 2
\* Controllers with a _before and with an _after hook; none has __before__ or
\* __after__.
HasBefore == {"root", "B"}
HasAfter == {"A", "B"}

\* What can follow the last dot of a segment, and what can come before it.
Extensions == {".json", ".zzz", ".v1"}
Stems == Segments \cup {"c.v1"}
DottedSegments == {"c.json", "c.zzz", "c.v1.json"}

\* '.' in segment
HasDot(segment) == \E stem \in Stems, extension \in Extensions : stem \o extension = segment

\* segment[:segment.rfind('.')] and segment[segment.rfind('.'):]
LastDotSplit(segment) ==
    CHOOSE sp \in Stems \X Extensions : sp[1] \o sp[2] = segment

\* An optional value that is present.
Some(v) == <<v>>

\* mimetypes.guess_type(segment)[0]: the type the text after the last dot implies.
guess_type(segment) ==
    IF HasDot(segment) /\ LastDotSplit(segment)[2] = ".json"
    THEN Some("application/json")
    ELSE None

\* The suffix taken off at the first dot of the segment, whatever follows it.
strip_extension_first_dot(url_path) ==
    IF url_path # <<>> /\ HasDot(Last(url_path))
    THEN [url_path |-> Front(url_path) \o <<"c">>,
          response_type |-> guess_type(Last(url_path)),
          response_ext |-> Some(LastDotSplit(Last(url_path))[2])]
    ELSE [url_path |-> url_path, response_type |-> None, response_ext |-> None]

\* _get_dispatchable, lines 161-171: the list as it is handed to the dispatch,
\* and the response type and extension recorded on the request.
strip_extension(url_path) ==
    IF url_path # <<>> /\ HasDot(Last(url_path)) /\ guess_type(Last(url_path)) # None
    THEN [url_path |-> Front(url_path) \o <<LastDotSplit(Last(url_path))[1]>>,
          response_type |-> guess_type(Last(url_path)),
          response_ext |-> Some(LastDotSplit(Last(url_path))[2])]
    ELSE [url_path |-> url_path, response_type |-> None, response_ext |-> None]

\* The list of the request before this one handed on instead of a new one.
request_url_path_reused(request) ==
    IF request.n > 1 THEN request.url_path_left ELSE world.path

\* _perform_call, lines 203-206: a new list of the request path's segments.
request_url_path(request) == world.path

\* The handler called without the _before hook.
before_hook_skipped(tr, controller) == tr

\* _perform_call, lines 215-216
before_hook(tr, controller) ==
    IF controller \in HasBefore THEN Append(tr, <<"_before", controller>>) ELSE tr

\* _perform_call, lines 227-228
after_hook(tr, controller) ==
    IF controller \in HasAfter THEN Append(tr, <<"_after", controller>>) ELSE tr

\* _get_dispatchable, line 180: url_path[:-len(state.remainder)]
controller_url(url_path, remainder) ==
    IF Len(remainder) = 0 THEN <<>> ELSE SliceDropLast(url_path, Len(remainder))

\* The segments of request paths: mounted names and names with extensions.
RequestSegments == {"a", "b", "c"} \cup DottedSegments

\* The graphs the requests meet: at most one controller exposes default or
\* lookup, and none exposes both.
RequestKindMaps ==
    { m \in [Controllers -> {"none", "default", "lookup"}] :
        \A c, d \in Controllers : (m[c] # "none" /\ m[d] # "none") => c = d }

RequestWorlds ==
    { [kind |-> k, lookup_ret |-> r, path |-> p] :
        k \in { m \in RequestKindMaps : \E c \in Controllers : m[c] = "lookup" },
        r \in LookupRets,
        p \in UNION { [1..n -> RequestSegments] : n \in 0..MaxRequestPathLen } }
    \cup
    { [kind |-> k, lookup_ret |-> NoLookupRet, path |-> p] :
        k \in { m \in RequestKindMaps : \A c \in Controllers : m[c] # "lookup" },
        p \in UNION { [1..n -> RequestSegments] : n \in 0..MaxRequestPathLen } }

\* Between two dispatches there is no DispatchState.
NoDispatch ==
    /\ state = StartDispatch("root", <<>>).state
    /\ frame = StartDispatch("root", <<>>).frame
    /\ heap = StartDispatch("root", <<>>).heap
    /\ trace = <<>>

InitRequest ==
    /\ world \in RequestWorlds
    /\ NoDispatch
    /\ cached_argspecs = NoCache
    /\ call = [op |-> "request", n |-> 1, phase |-> "received",
               params |-> [other |-> "named"],
               response_type |-> None, response_ext |-> None,
               dispatched |-> <<>>, controller_url |-> <<>>,
               url_path_left |-> <<>>, outcomes |-> <<>>]

\* _perform_call calling _get_dispatchable, lines 203-208 and 152-186: the
\* extension is taken off, the dispatch runs to its end, and what it resolved is
\* handed back; HTTPNotFound or the exception of a _check_security ends the request.
GetDispatchable ==
    /\ call.op = "request"
    /\ call.phase = "received"
    /\ \E denier \in HasCheckSecurity \cup {NoDenier} :
       \E stripped \in {strip_extension(request_url_path(call))} :
       \E end \in {RunDenying(StartDispatch("root", stripped.url_path), denier)} :
          /\ Terminal(end)
          /\ denier # NoDenier => end.frame.pc = "denied"
          /\ state' = IF end.frame.pc = "done"
                       THEN [end.state EXCEPT !.routing_args = dict_update(@, call.params)]
                       ELSE end.state
          /\ frame' = end.frame
          /\ heap' = end.heap
          /\ trace' = end.trace
          /\ call' = [call EXCEPT
                !.phase = IF end.frame.pc = "done" THEN "dispatched" ELSE "failed",
                !.response_type = stripped.response_type,
                !.response_ext = stripped.response_ext,
                !.dispatched = stripped.url_path,
                !.controller_url = IF end.frame.pc = "done"
                                   THEN controller_url(end.heap.caller, end.state.remainder)
                                   ELSE @,
                !.url_path_left = end.heap.caller,
                !.outcomes = Append(@, Outcome(end))]
    /\ UNCHANGED <<world, cached_argspecs>>

\* _perform_call, lines 210-216: the hook may raise, and the request ends there.
Before ==
    /\ call.op = "request"
    /\ call.phase = "dispatched"
    /\ \E raises \in BOOLEAN :
          /\ raises => controller_of(state) \in HasBefore
          /\ trace' = before_hook(trace, controller_of(state))
          /\ call' = [call EXCEPT !.phase = IF raises THEN "failed" ELSE "before_done"]
    /\ UNCHANGED <<world, state, frame, heap, cached_argspecs>>

\* _perform_call, lines 218-220
CallHandler ==
    /\ call.op = "request"
    /\ call.phase = "before_done"
    /\ trace' = Append(trace, <<"_call", state.method[1], state.method[2]>>)
    /\ call' = [call EXCEPT !.phase = "called"]
    /\ UNCHANGED <<world, state, frame, heap, cached_argspecs>>

\* _perform_call, lines 222-229
After ==
    /\ call.op = "request"
    /\ call.phase = "called"
    /\ trace' = after_hook(trace, controller_of(state))
    /\ call' = [call EXCEPT !.phase = "returned"]
    /\ UNCHANGED <<world, state, frame, heap, cached_argspecs>>

\* A second request for the same path and parameters arrives.
NextRequest ==
    /\ call.op = "request"
    /\ call.phase \in {"returned", "failed"}
    /\ call.n = 1
    /\ state' = StartDispatch("root", <<>>).state
    /\ frame' = StartDispatch("root", <<>>).frame
    /\ heap' = StartDispatch("root", <<>>).heap
    /\ trace' = <<>>
    /\ call' = [call EXCEPT !.n = @ + 1, !.phase = "received",
                            !.response_type = None, !.response_ext = None,
                            !.dispatched = <<>>, !.controller_url = <<>>]
    /\ UNCHANGED <<world, cached_argspecs>>

NextOfRequest == GetDispatchable \/ Before \/ CallHandler \/ After \/ NextRequest

SpecRequest == InitRequest /\ [][NextOfRequest]_vars

\* ------------------------------------------------------------ reading the trace

Events(kind) == SelectSeq(trace, LAMBDA e : e[1] = kind)

\* The controllers entered, in order (the root first).
Entered == [i \in 1..Len(Events("add_controller")) |-> Events("add_controller")[i][2]]

ExposesDefault(controller) == world.kind[controller] \in {"default", "both"}
ExposesLookup(controller) == world.kind[controller] \in {"lookup", "both"}

FallbackSearched == Len(Events("fallback")) > 0

SetMax(S) == CHOOSE m \in S : \A o \in S : o <= m

\* ---------------------------------------------------------------- claims

\* C1: when no rule matches at the deepest controller reached (and no lookup is in
\* the way), the fallback search resolves to the default handler of the most
\* recently entered controller that exposes one, and the remainder is the path
\* from the segment that follows that controller's mount point, in order.
DefaultHolders == { i \in 1..Len(Entered) : ExposesDefault(Entered[i]) }

C1_Applies ==
    /\ frame.pc \in {"done", "notfound"}
    /\ FallbackSearched
    /\ Lookups(trace) = 0
    /\ DefaultHolders # {}
    /\ \A j \in 1..Len(Entered) : j > SetMax(DefaultHolders) => ~ExposesLookup(Entered[j])

C1_FallbackResolvesNearestDefault ==
    C1_Applies =>
        LET k == SetMax(DefaultHolders) IN
        /\ frame.pc = "done"
        /\ state.method = <<Entered[k], "default">>
        /\ state.remainder = SubSeq(world.path, k, Len(world.path))

\* The mount points on the path to the deepest controller are pairwise distinct.
DistinctLocations ==
    \A i, j \in 1..Len(Entered) :
        (1 < i /\ i < j) => world.path[i - 1] # world.path[j - 1]

C1_NearestDefaultOnDistinctLocations ==
    (C1_Applies /\ DistinctLocations) =>
        LET k == SetMax(DefaultHolders) IN
        /\ frame.pc = "done"
        /\ state.method = <<Entered[k], "default">>
        /\ state.remainder = SubSeq(world.path, k, Len(world.path))

\* C2: the fallback search ends in NotFound if and only if no controller on the
\* stack it walks exposes default or lookup, and then the walk has popped every
\* controller.
FallbackDecided ==
    \/ frame.pc = "notfound"
    \/ frame.pc = "done" /\ state.method[2] = "default"
    \/ frame.pc = "enter" /\ frame.current_path = "lookup"

C2_NotFoundIffNothingExposed ==
    FallbackDecided =>
        /\ (frame.pc = "notfound") <=>
              (\A i \in 1..Len(frame.walked) :
                  /\ ~ExposesDefault(frame.walked[i].controller)
                  /\ ~ExposesLookup(frame.walked[i].controller))
        /\ frame.pc = "notfound" =>
              (state.controller_path = <<>> /\ frame.i = Len(frame.walked))

C2_Witness == frame.pc = "notfound" /\ Len(frame.walked) >= 3

\* C3: after a lookup returned (controllerX, remainderY), the dispatch ends as a
\* dispatch started at controllerX with remainderY ends: same handler, same
\* remainder, or NotFound in both.
LastLookup == Events("lookup")[Len(Events("lookup"))]

C3_LookupRestartsAsFresh ==
    (frame.pc \in {"done", "notfound"} /\ Lookups(trace) > 0) =>
        LET fresh == Run(StartDispatch(LastLookup[3], LastLookup[4])) IN
        fresh.frame.pc \in {"done", "notfound"} => Outcome(fresh) = Outcome(Cfg)

\* C4: a handler is resolved only after every controller entered so far that has
\* a _check_security hook had it invoked, right before or right after it was
\* entered.
C4_SecurityCheckedBeforeHandler ==
    \A k \in 1..Len(trace) :
        trace[k][1] = "add_method" =>
            \A j \in 1..(k - 1) :
                (trace[j][1] = "add_controller" /\ trace[j][2] \in HasCheckSecurity) =>
                    \/ j > 1 /\ trace[j - 1] = <<"_check_security", trace[j][2]>>
                    \/ j + 1 < k /\ trace[j + 1] = <<"_check_security", trace[j][2]>>

C4_Witness ==
    /\ frame.pc = "done"
    /\ Lookups(trace) > 0
    /\ state.method = <<"C", "default">>
    /\ Len(Entered) >= 3

\* C5: once the root's _check_security has signalled denial, no handler is
\* resolved, no sub-controller is entered and no lookup is invoked.
RootDenied == \E k \in 1..Len(trace) : trace[k] = <<"SecurityDenied", "root">>

C5_RootDenialStopsDispatch ==
    RootDenied =>
        /\ frame.pc = "denied"
        /\ state.method = None
        /\ state.remainder = None
        /\ Entered = <<"root">>
        /\ Lookups(trace) = 0
        /\ ~FallbackSearched

C5_Witness == RootDenied /\ Len(world.path) >= 2 /\ ExposesLookup("root")

\* C6: when the first remaining segment names an exposed handler of the current
\* controller, the step resolves to that handler with the following segments as
\* remainder, and enters no controller.
C6_ExposedHandlerConsumesOneSegment ==
    [][ ( /\ frame.pc = "route"
          /\ frame.remainder # <<>>
          /\ Attribute(controller_of(state), frame.remainder[1])[1] = "method" )
        => ( /\ frame'.pc = "done"
             /\ state'.method = <<controller_of(state), frame.remainder[1]>>
             /\ state'.remainder = Tail(frame.remainder)
             /\ state'.controller_path = state.controller_path ) ]_vars

C6_Witness ==
    /\ frame.pc = "done"
    /\ state.method = <<"A", "c">>
    /\ state.remainder = <<"x", "b">>

\* C7: with an empty remainder the step resolves to the current controller's
\* index with an empty remainder when it has one, and otherwise enters the
\* fallback search with an empty remainder.
C7_EmptyRemainderIndexOrFallback ==
    [][ (frame.pc = "route" /\ frame.remainder = <<>>)
        => IF controller_of(state) \in HasIndex
           THEN /\ frame'.pc = "done"
                /\ state'.method = <<controller_of(state), "index">>
                /\ state'.remainder = <<>>
           ELSE /\ frame'.pc = "fallback"
                /\ frame'.remainder = <<>>
                /\ state'.method = None ]_vars

C7_Witness ==
    /\ frame.pc = "done"
    /\ state.method = <<"A", "index">>
    /\ state.remainder = <<>>
    /\ world.path = <<"a">>

\* C8: add_routing_args binds remainder[i] to fixed_args[i] for every i below
\* min(len(fixed_args), len(remainder)); it stores a leftover under current_path
\* only when var_args is true and the remainder is longer than fixed_args, and the
\* leftover is the remainder after the entries bound to fixed names.
C8_RoutingArgsBindThenLeftover ==
    (call.op = "add_routing_args" /\ call.returned /\ ~call.merged) =>
        /\ \A i \in 1..Min(Len(call.fixed_args), Len(call.remainder)) :
              /\ call.fixed_args[i] \in DOMAIN state.routing_args
              /\ state.routing_args[call.fixed_args[i]] = call.remainder[i]
        /\ (call.current_path \in DOMAIN state.routing_args)
              <=> (call.var_args /\ Len(call.remainder) > Len(call.fixed_args))
        /\ call.current_path \in DOMAIN state.routing_args =>
              state.routing_args[call.current_path]
                  = SliceFrom(call.remainder, Len(call.fixed_args))

\* The parameters the handler declares after self, and its numbers of them.
Declared == Tail(call.func.args)
Defaults == IF call.func.defaults = None THEN 0 ELSE Len(call.func.defaults)
RemoveReturned == call.op = "_remove_argspec_params_from_params" /\ call.returned

\* C9: a declared parameter without a default that is present in the named
\* parameters is moved into its positional slot and leaves the returned mapping,
\* whatever the numbers of declared parameters and of defaults.
C9_RequiredMovedToPositionalSlot ==
    (RemoveReturned /\ call.remainder # <<>>) =>
        \A i \in 1..(Len(Declared) - Defaults) :
            Declared[i] \in DOMAIN call.params =>
                /\ i <= Len(call.ret_remainder)
                /\ call.ret_remainder[i] = call.params[Declared[i]]
                /\ Declared[i] \notin DOMAIN call.ret_params

GetParamsReturned == call.op = "_get_params_with_argspec" /\ call.returned

\* C11: _get_params_with_argspec binds the i-th declared parameter (self left
\* out) to the i-th remainder entry for every i up to min(declared, remainder),
\* leaves every declared parameter beyond the remainder as the named parameters
\* had it, and binds the same whatever other named parameters there are.
C11_PositionalBinding ==
    GetParamsReturned =>
        LET alone == _get_params_with_argspec(getargspec(call.func), <<>>,
                                              call.remainder).params IN
        /\ \A i \in 1..Min(Len(Declared), Len(call.remainder)) :
              /\ Declared[i] \in DOMAIN call.ret_params
              /\ call.ret_params[Declared[i]] = call.remainder[i]
              /\ alone[Declared[i]] = call.ret_params[Declared[i]]
        /\ \A i \in (Len(call.remainder) + 1)..Len(Declared) :
              /\ Declared[i] \notin DOMAIN alone
              /\ (Declared[i] \in DOMAIN call.ret_params)
                    <=> (Declared[i] \in DOMAIN call.params)
              /\ Declared[i] \in DOMAIN call.params =>
                    call.ret_params[Declared[i]] = call.params[Declared[i]]
        /\ "other" \in DOMAIN call.params =>
              ("other" \in DOMAIN call.ret_params /\ call.ret_params["other"] = "named")

C11_Witness ==
    /\ GetParamsReturned
    /\ Len(Declared) = 3
    /\ call.remainder = <<"u", "v">>
    /\ DOMAIN call.params = {"p", "r", "other"}
    /\ call.ret_params = [p |-> "u", q |-> "v", r |-> "named", other |-> "named"]

\* C12: neither helper changes the mapping object its caller passed: when the
\* call has returned or raised, the caller's mapping has the keys and values it
\* had when the call was made.
C12_CallerParamsUnchanged ==
    (call.op \in ArgspecOps /\ (call.returned \/ call.raised # "no")) =>
        call.caller_params = call.params

C12_Witness ==
    /\ RemoveReturned
    /\ call.remainder # <<>>
    /\ call.ret_params # call.params
    /\ call.caller_params = call.params
    /\ "p" \in DOMAIN call.params

\* C13: after the merge of line 183 every key the dispatch had bound keeps the
\* value the dispatch gave it, and a named parameter's value is used only for
\* the keys the dispatch had not bound.
C13_EngineBindingKept ==
    (call.op = "add_routing_args" /\ call.merged) =>
        /\ \A k \in DOMAIN call.bound :
              k \in DOMAIN state.routing_args /\ state.routing_args[k] = call.bound[k]
        /\ \A k \in (DOMAIN call.params) \ (DOMAIN call.bound) :
              k \in DOMAIN state.routing_args /\ state.routing_args[k] = call.params[k]

\* The request is past _get_dispatchable.
Dispatched == call.op = "request" /\ call.phase # "received"

\* The last segment of the request path ends in a dot and a recognized extension.
RecognizedExtension ==
    /\ world.path # <<>>
    /\ \E stem \in Stems : stem \o ".json" = Last(world.path)

IsSuffix(t, q) == Len(t) <= Len(q) /\ t = SubSeq(q, Len(q) - Len(t) + 1, Len(q))

\* C14: the extension is taken off once, before the dispatch: a last segment
\* ending in a dot and a recognized extension reaches the dispatch as its text
\* before the last dot, with the type and the extension recorded; otherwise the
\* path reaches the dispatch as it came and the response type stays unset; the
\* segments before the last are as they came, and the dispatch takes off nothing more.
C14_ExtensionStrippedOnce ==
    Dispatched =>
        /\ Len(call.dispatched) = Len(world.path)
        /\ \A i \in 1..(Len(world.path) - 1) : call.dispatched[i] = world.path[i]
        /\ IF RecognizedExtension
           THEN /\ Last(call.dispatched) \o ".json" = Last(world.path)
                /\ call.response_type = Some("application/json")
                /\ call.response_ext = Some(".json")
           ELSE /\ call.dispatched = world.path
                /\ call.response_type = None
                /\ call.response_ext = None
        /\ (frame.pc = "done" /\ Lookups(trace) = 0) =>
              IsSuffix(state.remainder, call.dispatched)

C14_Witness ==
    /\ Dispatched
    /\ world.path = <<"c.json", "c.v1.json">>
    /\ call.dispatched = <<"c.json", "c.v1">>
    /\ call.response_type = Some("application/json")
    /\ frame.pc = "done"
    /\ state.remainder = <<"c.json", "c.v1">>

\* C15: in a request the dispatch resolves the handler first, then _before of
\* the resolved controller runs (when it has one), then the handler is called,
\* then _after (when it has one); the handler is never called before _before
\* has returned.
C15_HooksAroundHandler ==
    call.op = "request" =>
        /\ \A k \in 1..Len(trace) :
              /\ trace[k][1] = "_before" =>
                    /\ \E m \in 1..(k - 1) : trace[m][1] = "add_method"
                    /\ \A j \in 1..(k - 1) : trace[j][1] \notin {"_call", "_after"}
              /\ trace[k][1] = "_call" =>
                    /\ \E m \in 1..(k - 1) : trace[m][1] = "add_method"
                    /\ trace[k] = <<"_call", state.method[1], state.method[2]>>
                    /\ controller_of(state) \in HasBefore =>
                          trace[k - 1] = <<"_before", controller_of(state)>>
                    /\ \A j \in 1..(k - 1) : trace[j][1] \notin {"_call", "_after"}
              /\ trace[k][1] = "_after" =>
                    /\ trace[k - 1][1] = "_call"
                    /\ k = Len(trace)
        /\ call.phase = "returned" =>
              /\ \E k \in 1..Len(trace) : trace[k][1] = "_call"
              /\ controller_of(state) \in HasAfter =>
                    Last(trace) = <<"_after", controller_of(state)>>

C15_Witness ==
    /\ call.op = "request"
    /\ call.phase = "returned"
    /\ controller_of(state) = "B"
    /\ SubSeq(trace, Len(trace) - 3, Len(trace))
          = <<<<"add_method", "B">>, <<"_before", "B">>,
              <<"_call", "B", "default">>, <<"_after", "B">>>>

C17_CallerPathUnchanged == heap.caller = world.path

\* C18: a dispatch sets the resolved handler at most once; setting it is the
\* last thing the dispatch does (no controller is entered, no lookup is called,
\* no fallback step is taken afterwards); a dispatch that failed, by NotFound or
\* by a security denial, leaves the handler unset.
C18_HandlerSetOnceAndLast ==
    /\ Len(Events("add_method")) <= 1
    /\ \A k \in 1..Len(trace) : trace[k][1] = "add_method" => k = Len(trace)
    /\ (state.method # None) <=> (Len(Events("add_method")) = 1)
    /\ (state.method # None) <=> (frame.pc = "done")
    /\ frame.pc \in {"notfound", "denied"} =>
          (state.method = None /\ state.remainder = None)

C18_Witness ==
    /\ frame.pc = "done"
    /\ state.method = <<"B", "default">>
    /\ Lookups(trace) = 1
    /\ Len(Events("fallback")) = 2

\* C19: however the requests' calls of _get_argspec interleave, every call
\* returns the argspec of the handler it was given, and every entry of every
\* cache dict maps a handler to that handler's own argspec.
C19_ArgspecOfOwnHandler ==
    call.op = "_get_argspec" =>
        /\ \A t \in Threads :
              call.threads[t].pc = "done" =>
                  call.threads[t].argspec = getargspec(call.threads[t].func)
        /\ \A d \in DictIds :
              \A key \in DOMAIN call.dicts[d] :
                  \E h \in RaceHandlers :
                      h.im_func = key /\ call.dicts[d][key] = getargspec(h)

\* Two requests both found the class without a cache; the dict of the first
\* was replaced, and its entry is not in the class's cache.
C19_Witness ==
    /\ call.op = "_get_argspec"
    /\ \A t \in Threads : call.threads[t].pc = "done"
    /\ Cardinality(call.created) >= 2
    /\ \E t \in Threads :
          /\ call.threads[t].cached # call.class_ref
          /\ call.threads[t].func.im_func \notin DOMAIN cached_argspecs.entries

\* C20: against a graph without lookup every dispatch comes to an end, with a
\* handler resolved, with NotFound or with a security denial; the fallback
\* search is entered at most once and pops at most one controller per
\* controller entered.
C20_DispatchTerminates ==
    /\ <>(frame.pc \in {"done", "notfound", "denied"})
    /\ [](/\ Len(Events("fallback")) <= 1
          /\ frame.i <= Len(frame.walked)
          /\ Len(frame.walked) <= Len(Entered))

C20_Witness ==
    /\ frame.pc = "notfound"
    /\ Lookups(trace) = 0
    /\ Entered = <<"root", "A", "B", "C">>
    /\ frame.i = Len(Entered)

\* C21: after a dispatch that resolved a handler without any lookup, the
\* controller URL recorded is the consumed prefix of the path handed to the
\* dispatch: its segments without the resolved remainder, the whole path when
\* the remainder is empty.
C21_ControllerUrlIsConsumedPrefix ==
    (call.op = "request" /\ call.phase # "received"
        /\ frame.pc = "done" /\ Lookups(trace) = 0) =>
        call.controller_url
            = SubSeq(call.dispatched, 1, Len(call.dispatched) - Len(state.remainder))

====
